---- MODULE Spec2Model ----
(***************************************************************************)
(* ParseqToDeforumNode (src/Parseq_Deforum_Intergrator.py): the conversion *)
(* of a Parseq keyframe payload and a target frame into a Deforum          *)
(* camera-movement record.                                                 *)
(*                                                                         *)
(* A call of convert_parseq_to_deforum is a small process: its position    *)
(* (pc, named after the source line it is about to run), its locals        *)
(* (keyframes, params, the loop index, prev_frame, next_frame), the        *)
(* exception in flight and the value it returned.  Python dicts are        *)
(* objects: params is a reference into heap, and the returned mapping      *)
(* holds that same reference.                                              *)
(*                                                                         *)
(* Floats are modelled as exact rationals [n, d] (d > 0), integer-valued   *)
(* ones kept as n/1; the rounding of IEEE doubles is not modelled.         *)
(***************************************************************************)
EXTENDS Integers, Sequences, FiniteSets

VARIABLES payload, frame, pc, keyframes, params, heap, idx,
          prev_frame, next_frame, exc, result

vars == <<payload, frame, pc, keyframes, params, heap, idx,
          prev_frame, next_frame, exc, result>>

----------------------------------------------------------------------------
(* Bounds of the model *)

\* largest number of keyframes in a payload
MaxKf == 2
\* largest frame number, of keyframes and of the target frame
MaxFrame == 2
\* number of callers that may be inside the node at once
NumCalls == 2

Calls == 1..NumCalls

----------------------------------------------------------------------------
(* JSON values and floats *)

Num(n) == [t |-> "num", s |-> "", v |-> n]
Str(s) == [t |-> "str", s |-> s, v |-> 0]
Absent == [t |-> "absent", s |-> "", v |-> 0]

\* the numeric strings of the model and the number each denotes
NumericStrings == {"2", "3"}
ParseNumber(s) == CASE s = "2" -> 2 [] s = "3" -> 3 [] OTHER -> 0

Flt(n) == [n |-> n, d |-> 1]

\* float(x) raises ValueError on a string that is no number
FloatRaises(x) == x.t = "str" /\ x.s \notin NumericStrings

\* float(x): a JSON number is itself, a numeric string is parsed
ToFloat(x) == IF x.t = "str" THEN Flt(ParseNumber(x.s)) ELSE Flt(x.v)

\* a rational whose value is an integer is kept as n/1
Norm(q) == IF q.n % q.d = 0 THEN Flt(q.n \div q.d) ELSE q

----------------------------------------------------------------------------
(* The parameter record *)

\* params.keys() in insertion order
KeyOrder == <<"translation_x", "translation_y", "translation_z",
              "rotation_3d_x", "rotation_3d_y", "rotation_3d_z", "zoom">>

KnownKeys == {KeyOrder[j] : j \in 1..Len(KeyOrder)}

\* variant: zoom defaulting to 0.0 like the other six
DefaultsZoomZero == [k \in KnownKeys |-> Flt(0)]

\* the literal of extract_camera_params
Defaults == [k \in KnownKeys |-> IF k = "zoom" THEN Flt(1) ELSE Flt(0)]

\* a heap cell that holds no dict
NoDict == [unallocated |-> TRUE]

\* variant: one dict kept by the class and handed to every call
NewDictShared(c) == 1

\* the dict literal builds a new object on every call: no two calls in
\* flight hold the same one
NewDict(c) == c

----------------------------------------------------------------------------
(* Payloads *)

\* a key the node does not know; Parseq keyframes carry several
UnknownKey == "strength"

MkKf(fr, tx, zm) ==
    LET dom == {UnknownKey}
               \cup (IF fr = Absent THEN {} ELSE {"frame"})
               \cup (IF tx = Absent THEN {} ELSE {"translation_x"})
               \cup (IF zm = Absent THEN {} ELSE {"zoom"})
    IN [k \in dom |-> CASE k = "frame" -> fr
                        [] k = "translation_x" -> tx
                        [] k = "zoom" -> zm
                        [] OTHER -> Num(9)]

FrameOpts == {Absent} \cup {Num(n) : n \in 0..MaxFrame}
TxOpts == {Absent, Str("2"), Str("abc")}
ZoomOpts == {Absent, Num(1), Num(3)}

KfSet == {MkKf(fr, tx, zm) : fr \in FrameOpts, tx \in TxOpts, zm \in ZoomOpts}

SeqsUpTo(S, n) == UNION {[1..k -> S] : k \in 0..n}

Invalid == [kind |-> "invalid", keyframes |-> <<>>]
NotObject == [kind |-> "notobject", keyframes |-> <<>>]
NoKeyframes == [kind |-> "nokeyframes", keyframes |-> <<>>]
Obj(kfs) == [kind |-> "object", keyframes |-> kfs]

Payloads == {Invalid, NotObject, NoKeyframes}
            \cup {Obj(s) : s \in SeqsUpTo(KfSet, MaxKf)}

Targets == 0..MaxFrame

\* the payloads of the callers that run side by side: one exact match, one
\* that fails after it has written a field, and the node's default "{}"
ConcPayloads == {Obj(<<MkKf(Num(0), Absent, Num(3))>>),
                 Obj(<<MkKf(Num(1), Str("2"), Absent),
                       MkKf(Num(1), Str("abc"), Num(3))>>),
                 NoKeyframes}

NoPayload == [kind |-> "none", keyframes |-> <<>>]
\* the value of a call that has not returned
NoResult == [pending |-> TRUE]

----------------------------------------------------------------------------
(* Helpers *)

Max(S) == CHOOSE x \in S : \A y \in S : y <= x
Min(S) == CHOOSE x \in S : \A y \in S : x <= y

\* prev_frame and next_frame before interpolate_values binds them
None == -1

----------------------------------------------------------------------------
(* extract_camera_params *)

\* some keyframe has no "frame" key: the comprehension raises KeyError
FramesRaises(kfs) == \E i \in 1..Len(kfs) : "frame" \notin DOMAIN kfs[i]

\* frames = [kf["frame"] for kf in keyframes]
Frames(kfs) == [i \in 1..Len(kfs) |-> kfs[i]["frame"].v]

FrameSet(kfs) == {Frames(kfs)[i] : i \in 1..Len(kfs)}

\* for key in params.keys(): if key in kf: params[key] = float(kf[key]),
\* from the j-th key on; a ValueError leaves the keys written so far
RECURSIVE WriteKeys(_, _, _)
WriteKeys(kf, p, j) ==
    IF j > Len(KeyOrder) THEN [exc |-> "none", params |-> p]
    ELSE LET key == KeyOrder[j] IN
         IF key \in DOMAIN kf
         THEN IF FloatRaises(kf[key])
              THEN [exc |-> "ValueError", params |-> p]
              ELSE WriteKeys(kf, [p EXCEPT ![key] = ToFloat(kf[key])], j + 1)
         ELSE WriteKeys(kf, p, j + 1)

\* one iteration of "for kf in keyframes": if kf.get("frame") == frame
VisitKf(kf, f, p) ==
    IF kf["frame"].v = f THEN WriteKeys(kf, p, 1)
    ELSE [exc |-> "none", params |-> p]

\* variant: a break after the first keyframe at the target
AfterVisitBreak(kfs, f, i) ==
    IF i = Len(kfs) \/ kfs[i]["frame"].v = f THEN "L33" ELSE "L54"

\* where the loop goes after the i-th keyframe: it has no break, a match
\* does not end it
AfterVisit(kfs, f, i) == IF i = Len(kfs) THEN "L33" ELSE "L54"

\* the loop from the i-th keyframe on
RECURSIVE ExactLoop(_, _, _, _)
ExactLoop(kfs, f, p, i) ==
    LET r == VisitKf(kfs[i], f, p)
    IN IF r.exc # "none" \/ AfterVisit(kfs, f, i) = "L33" THEN r
       ELSE ExactLoop(kfs, f, r.params, i + 1)

----------------------------------------------------------------------------
(* interpolate_values *)

\* 1e-6, as 1/EpsInv
EpsInv == 1000000

\* frames[frames <= frame].max(initial=0): the initial value takes part in
\* the maximum
PrevFrame(kfs, f) == Max({0} \cup {x \in FrameSet(kfs) : x <= f})

\* variant: the target as a fallback for the empty selection only
NextFrameNoInitial(kfs, f) ==
    IF \E x \in FrameSet(kfs) : x >= f
    THEN Min({x \in FrameSet(kfs) : x >= f}) ELSE f

\* frames[frames >= frame].min(initial=frame): the initial value takes part
\* in the minimum
NextFrame(kfs, f) == Min({f} \cup {x \in FrameSet(kfs) : x >= f})

\* next(kf for kf in keyframes if kf["frame"] == fr): the index of the
\* first such keyframe, 0 when the generator is exhausted (StopIteration)
FindKf(kfs, fr) ==
    LET hits == {i \in 1..Len(kfs) : kfs[i]["frame"].v = fr}
    IN IF hits = {} THEN 0 ELSE Min(hits)

\* alpha = (frame - prev_frame) / (next_frame - prev_frame + 1e-6)
Alpha(f, pf, nf) == [n |-> (f - pf) * EpsInv, d |-> (nf - pf) * EpsInv + 1]

\* (1 - alpha) * a + alpha * b
Blend(alpha, a, b) ==
    Norm([n |-> (alpha.d - alpha.n) * a.n * b.d + alpha.n * b.n * a.d,
          d |-> alpha.d * a.d * b.d])

\* the loop over params.keys(), from the j-th key on
RECURSIVE BlendKeys(_, _, _, _, _)
BlendKeys(pk, nk, alpha, p, j) ==
    IF j > Len(KeyOrder) THEN [exc |-> "none", params |-> p]
    ELSE LET key == KeyOrder[j] IN
         IF key \in DOMAIN pk /\ key \in DOMAIN nk
         THEN IF FloatRaises(pk[key]) \/ FloatRaises(nk[key])
              THEN [exc |-> "ValueError", params |-> p]
              ELSE BlendKeys(pk, nk, alpha,
                     [p EXCEPT ![key] = Blend(alpha, ToFloat(pk[key]), ToFloat(nk[key]))],
                     j + 1)
         ELSE BlendKeys(pk, nk, alpha, p, j + 1)

\* the whole of interpolate_values: the exception it raises, the params it
\* leaves and the two frame numbers it computed
InterpolateValues(kfs, f, p) ==
    LET pf == PrevFrame(kfs, f)
        nf == NextFrame(kfs, f)
        pi == FindKf(kfs, pf)
        ni == FindKf(kfs, nf)
    IN IF pi = 0 \/ ni = 0
       THEN [exc |-> "StopIteration", params |-> p, prev |-> pf, next |-> nf]
       ELSE LET r == BlendKeys(kfs[pi], kfs[ni], Alpha(f, pf, nf), p, 1)
            IN [exc |-> r.exc, params |-> r.params, prev |-> pf, next |-> nf]

----------------------------------------------------------------------------
(* convert_parseq_to_deforum *)

\* variant: except ValueError (JSONDecodeError is a subclass)
CatchesValueError(e) == e \in {"ValueError", "JSONDecodeError"}

\* except Exception: every exception the body raises is a subclass
Catches(e) == e \in {"JSONDecodeError", "AttributeError", "KeyError",
                     "ValueError", "StopIteration"}

\* str(e)
ErrMsg(e) == CASE e = "StopIteration" -> ""
               [] e = "KeyError" -> "'frame'"
               [] e = "ValueError" -> "could not convert string to float: 'abc'"
               [] e = "AttributeError" -> "'list' object has no attribute 'get'"
               [] OTHER -> "Expecting value: line 1 column 1 (char 0)"

\* extract_camera_params as a function of its arguments
ExtractCameraParams(kfs, f) ==
    IF FramesRaises(kfs) THEN [exc |-> "KeyError", params |-> Defaults]
    ELSE IF f \in FrameSet(kfs) THEN ExactLoop(kfs, f, Defaults, 1)
    ELSE LET r == InterpolateValues(kfs, f, Defaults)
         IN [exc |-> r.exc, params |-> r.params]

\* convert_parseq_to_deforum as a function of its arguments: the mapping
\* the caller reads
ConvertParseqToDeforum(p, f) ==
    IF p.kind = "invalid" THEN [error |-> ErrMsg("JSONDecodeError")]
    ELSE IF p.kind = "notobject" THEN [error |-> ErrMsg("AttributeError")]
    ELSE LET r == ExtractCameraParams(p.keyframes, f)
         IN IF r.exc = "none" THEN [camera_movement |-> r.params]
            ELSE [error |-> ErrMsg(r.exc)]

----------------------------------------------------------------------------
(* The calls *)

Init ==
    /\ payload = [c \in Calls |-> NoPayload]
    /\ frame = [c \in Calls |-> 0]
    /\ pc = [c \in Calls |-> "idle"]
    /\ keyframes = [c \in Calls |-> <<>>]
    /\ params = [c \in Calls |-> 0]
    /\ heap = [r \in Calls |-> NoDict]
    /\ idx = [c \in Calls |-> 0]
    /\ prev_frame = [c \in Calls |-> None]
    /\ next_frame = [c \in Calls |-> None]
    /\ exc = [c \in Calls |-> "none"]
    /\ result = [c \in Calls |-> NoResult]

\* the host calls the node; what the caller held of an earlier call is gone
Invoke(c, p, f) ==
    /\ pc[c] \in {"idle", "done"}
    /\ payload' = [payload EXCEPT ![c] = p]
    /\ frame' = [frame EXCEPT ![c] = f]
    /\ pc' = [pc EXCEPT ![c] = "L30"]
    /\ keyframes' = [keyframes EXCEPT ![c] = <<>>]
    /\ params' = [params EXCEPT ![c] = 0]
    /\ heap' = [heap EXCEPT ![c] = NoDict]
    /\ idx' = [idx EXCEPT ![c] = 0]
    /\ prev_frame' = [prev_frame EXCEPT ![c] = None]
    /\ next_frame' = [next_frame EXCEPT ![c] = None]
    /\ exc' = [exc EXCEPT ![c] = "none"]
    /\ result' = [result EXCEPT ![c] = NoResult]

\* data = json.loads(parseq_data); keyframes = data.get("keyframes", [])
Parse(c) ==
    /\ pc[c] = "L30"
    /\ LET k == payload[c].kind
           e == CASE k = "invalid" -> "JSONDecodeError"
                  [] k = "notobject" -> "AttributeError"
                  [] OTHER -> "none"
       IN /\ exc' = [exc EXCEPT ![c] = e]
          /\ pc' = [pc EXCEPT ![c] = IF e = "none" THEN "L41" ELSE "L34"]
          /\ keyframes' = [keyframes EXCEPT ![c] =
                              IF k = "object" THEN payload[c].keyframes ELSE <<>>]
    /\ UNCHANGED <<payload, frame, params, heap, idx, prev_frame, next_frame, result>>

\* params = {...}; frames = [...]; if frame in frames
Extract(c) ==
    /\ pc[c] = "L41"
    /\ params' = [params EXCEPT ![c] = NewDict(c)]
    /\ heap' = [heap EXCEPT ![NewDict(c)] = Defaults]
    /\ IF FramesRaises(keyframes[c])
       THEN /\ exc' = [exc EXCEPT ![c] = "KeyError"]
            /\ pc' = [pc EXCEPT ![c] = "L34"]
            /\ idx' = idx
       ELSE /\ exc' = exc
            /\ IF frame[c] \in FrameSet(keyframes[c])
               THEN /\ pc' = [pc EXCEPT ![c] = "L54"]
                    /\ idx' = [idx EXCEPT ![c] = 1]
               ELSE /\ pc' = [pc EXCEPT ![c] = "L60"]
                    /\ idx' = idx
    /\ UNCHANGED <<payload, frame, keyframes, prev_frame, next_frame, result>>

\* one iteration of the exact-match loop
ExactIter(c) ==
    /\ pc[c] = "L54"
    /\ LET r == VisitKf(keyframes[c][idx[c]], frame[c], heap[params[c]])
       IN /\ heap' = [heap EXCEPT ![params[c]] = r.params]
          /\ exc' = [exc EXCEPT ![c] = r.exc]
          /\ pc' = [pc EXCEPT ![c] =
                      IF r.exc # "none" THEN "L34"
                      ELSE AfterVisit(keyframes[c], frame[c], idx[c])]
          /\ idx' = [idx EXCEPT ![c] =
                      IF r.exc = "none" /\ AfterVisit(keyframes[c], frame[c], idx[c]) = "L54"
                      THEN idx[c] + 1 ELSE idx[c]]
    /\ UNCHANGED <<payload, frame, keyframes, params, prev_frame, next_frame, result>>

\* params = self.interpolate_values(keyframes, frame, params)
Interpolate(c) ==
    /\ pc[c] = "L60"
    /\ LET r == InterpolateValues(keyframes[c], frame[c], heap[params[c]])
       IN /\ heap' = [heap EXCEPT ![params[c]] = r.params]
          /\ exc' = [exc EXCEPT ![c] = r.exc]
          /\ prev_frame' = [prev_frame EXCEPT ![c] = r.prev]
          /\ next_frame' = [next_frame EXCEPT ![c] = r.next]
          /\ pc' = [pc EXCEPT ![c] = IF r.exc = "none" THEN "L33" ELSE "L34"]
    /\ UNCHANGED <<payload, frame, keyframes, params, idx, result>>

\* return ({"camera_movement": camera_params},)
Return(c) ==
    /\ pc[c] = "L33"
    /\ result' = [result EXCEPT ![c] = [camera_movement |-> params[c]]]
    /\ pc' = [pc EXCEPT ![c] = "done"]
    /\ UNCHANGED <<payload, frame, keyframes, params, heap, idx,
                   prev_frame, next_frame, exc>>

\* except Exception as e: return ({"error": str(e)},)
Except(c) ==
    /\ pc[c] = "L34"
    /\ result' = [result EXCEPT ![c] =
                    IF Catches(exc[c])
                    THEN [error |-> ErrMsg(exc[c])]
                    ELSE NoResult]
    /\ pc' = [pc EXCEPT ![c] = IF Catches(exc[c]) THEN "done" ELSE "raised"]
    /\ UNCHANGED <<payload, frame, keyframes, params, heap, idx,
                   prev_frame, next_frame, exc>>

Step(c) ==
    \/ Parse(c)
    \/ Extract(c)
    \/ ExactIter(c)
    \/ Interpolate(c)
    \/ Return(c)
    \/ Except(c)

\* one call of a fresh node, on any payload and target frame
FirstCall ==
    /\ pc[1] = "idle"
    /\ \E p \in Payloads, f \in Targets : Invoke(1, p, f)

Next == FirstCall \/ Step(1)

Spec == Init /\ [][Next]_vars

\* several callers, each calling the node again and again
AnyCall ==
    \E c \in Calls, p \in ConcPayloads, f \in Targets : Invoke(c, p, f)

AnyStep == \E c \in Calls : Step(c)

NextConc == AnyCall \/ AnyStep

SpecConc == Init /\ [][NextConc]_vars

----------------------------------------------------------------------------
(* What a caller sees *)

Done(c) == pc[c] = "done"

IsRecord(c) == DOMAIN result[c] = {"camera_movement"}
IsError(c) == DOMAIN result[c] = {"error"}

\* the record under camera_movement, read through the reference
Record(c) == heap[result[c].camera_movement]

\* the returned mapping with the record read out
Observed(c) ==
    IF IsRecord(c) THEN [camera_movement |-> Record(c)] ELSE result[c]

Kfs(c) == payload[c].keyframes


----------------------------------------------------------------------------
(* Vocabulary of the properties, stated on the payload itself *)

\* the number a JSON value stands for
NumberOf(x) == CASE x = Str("2") -> 2 [] x = Str("3") -> 3 [] OTHER -> x.v

IsNumber(x) == x.t = "num" \/ x \in {Str("2"), Str("3")}

DefaultOf(key) == IF key = "zoom" THEN Flt(1) ELSE Flt(0)

HasFrames(kfs) == \A i \in 1..Len(kfs) : "frame" \in DOMAIN kfs[i]

\* a list of objects, each with a frame and numbers in its known fields
WellFormed(p) ==
    /\ p.kind \in {"object", "nokeyframes"}
    /\ HasFrames(p.keyframes)
    /\ \A i \in 1..Len(p.keyframes) :
         \A key \in KnownKeys \cap DOMAIN p.keyframes[i] :
            IsNumber(p.keyframes[i][key])

FrameOf(kf) == kf["frame"].v

FramesOf(kfs) == {FrameOf(kfs[i]) : i \in 1..Len(kfs)}

UniqueFrames(kfs) ==
    \A i, j \in 1..Len(kfs) : i # j => FrameOf(kfs[i]) # FrameOf(kfs[j])

\* the indices of the keyframes at frame f
At(kfs, f) == {i \in 1..Len(kfs) : FrameOf(kfs[i]) = f}

\* the target lies strictly between two keyframes and is none itself
Between(kfs, f) ==
    /\ f \notin FramesOf(kfs)
    /\ \E x \in FramesOf(kfs) : x < f
    /\ \E x \in FramesOf(kfs) : x > f

Below(kfs, f) == Max({x \in FramesOf(kfs) : x < f})
Above(kfs, f) == Min({x \in FramesOf(kfs) : x > f})

\* the keyframe at frame x, of a set with unique frames
KfAt(kfs, x) == kfs[CHOOSE i \in At(kfs, x) : TRUE]

\* q is within 1e-5 of num/den (den > 0)
Near(q, num, den) ==
    LET diff == q.n * den - q.d * num
        abs == IF diff < 0 THEN 0 - diff ELSE diff
    IN abs * 100000 <= q.d * den

----------------------------------------------------------------------------
(* C1 *)

\* C1: with unique frames and a target strictly between two keyframes, the
\* call returns a camera_movement record in which every known field that
\* both bracketing keyframes carry is the linear blend of their values
\* (keyframes 0: zoom 1 and 2: zoom 3 give zoom 2 at frame 1).
C1_Interpolation ==
    \A c \in Calls :
      (Done(c) /\ WellFormed(payload[c]) /\ UniqueFrames(Kfs(c))
         /\ Between(Kfs(c), frame[c]))
      => /\ IsRecord(c)
         /\ LET P == Below(Kfs(c), frame[c])
                N == Above(Kfs(c), frame[c])
                pk == KfAt(Kfs(c), P)
                nk == KfAt(Kfs(c), N)
            IN \A key \in KnownKeys \cap DOMAIN pk \cap DOMAIN nk :
                 Near(Record(c)[key],
                      (N - frame[c]) * NumberOf(pk[key])
                        + (frame[c] - P) * NumberOf(nk[key]),
                      N - P)

----------------------------------------------------------------------------
(* C2 *)

\* C2: on a well-formed payload with unique frames that has a keyframe K at
\* the target, the call returns a camera_movement record with exactly the
\* seven known keys; a field K carries has K's value, a field K lacks has
\* its default (0.0, zoom 1.0).
C2_ExactMatch ==
    \A c \in Calls :
      (Done(c) /\ WellFormed(payload[c]) /\ UniqueFrames(Kfs(c))
         /\ frame[c] \in FramesOf(Kfs(c)))
      => /\ IsRecord(c)
         /\ DOMAIN Record(c) = KnownKeys
         /\ LET K == KfAt(Kfs(c), frame[c])
            IN \A key \in KnownKeys :
                 Record(c)[key] = IF key \in DOMAIN K
                                  THEN Flt(NumberOf(K[key]))
                                  ELSE DefaultOf(key)

\* an exact match on a keyframe that has translation_x as a numeric string
\* and no zoom, next to a keyframe at another frame that has a zoom
C2_Witness ==
    /\ Done(1) /\ IsRecord(1)
    /\ WellFormed(payload[1]) /\ UniqueFrames(Kfs(1))
    /\ Len(Kfs(1)) = 2
    /\ frame[1] = FrameOf(Kfs(1)[1])
    /\ DOMAIN Kfs(1)[1] \cap KnownKeys = {"translation_x"}
    /\ Kfs(1)[1]["translation_x"] = Str("2")
    /\ "zoom" \in DOMAIN Kfs(1)[2] /\ Kfs(1)[2]["zoom"] = Num(3)
    /\ Record(1)["translation_x"] = Flt(2) /\ Record(1)["zoom"] = Flt(1)

----------------------------------------------------------------------------
(* C3 *)

\* a matching keyframe holds a non-numeric value in a known field
ReadsBadValue(kfs, f) ==
    \E i \in At(kfs, f) :
       \E key \in KnownKeys \cap DOMAIN kfs[i] : ~IsNumber(kfs[i][key])

\* C3: no call raises, and a call that returned holds exactly one key:
\* camera_movement with the full seven-field record, or error.  A payload
\* that does not parse, a keyframe without frame, or a non-numeric value in
\* a field that is read give the error mapping alone.
C3_AllOrNothing ==
    \A c \in Calls :
      /\ pc[c] # "raised"
      /\ Done(c) =>
           /\ \/ IsRecord(c) /\ DOMAIN Record(c) = KnownKeys
                   /\ \A key \in KnownKeys : DOMAIN Record(c)[key] = {"n", "d"}
              \/ IsError(c)
           /\ payload[c].kind = "invalid" => IsError(c)
           /\ (payload[c].kind = "object" /\ ~HasFrames(Kfs(c))) => IsError(c)
           /\ (payload[c].kind = "object" /\ HasFrames(Kfs(c))
                 /\ ReadsBadValue(Kfs(c), frame[c])) => IsError(c)

\* a call that failed on a non-numeric value after it had overwritten a
\* field of its record, and returned the error alone
C3_Witness ==
    /\ Done(1) /\ IsError(1)
    /\ exc[1] = "ValueError"
    /\ heap[params[1]] # Defaults

----------------------------------------------------------------------------
(* C4 *)

\* C4: on a payload whose keyframe set is empty (an empty list, or no
\* keyframes field) the call returns a camera_movement record with all
\* seven fields at their defaults, for every target frame.
C4_DefaultFill ==
    \A c \in Calls :
      (Done(c) /\ payload[c].kind \in {"object", "nokeyframes"}
         /\ Len(Kfs(c)) = 0)
      => IsRecord(c) /\ \A key \in KnownKeys : Record(c)[key] = DefaultOf(key)

----------------------------------------------------------------------------
(* C5 *)

\* all keyframes carry the same known fields
SameFields(kfs) ==
    \A i, j \in 1..Len(kfs) :
       KnownKeys \cap DOMAIN kfs[i] = KnownKeys \cap DOMAIN kfs[j]

\* the record equals keyframe kf in the known fields kf carries
EqualsKf(c, kf) ==
    \A key \in KnownKeys \cap DOMAIN kf :
       Record(c)[key] = Flt(NumberOf(kf[key]))

\* C5: on a non-empty keyframe set whose keyframes carry the same known
\* fields, a target before every keyframe gives the values of the keyframe
\* with the smallest frame and a target after every keyframe gives those of
\* the keyframe with the largest frame.
C5_Clamping ==
    \A c \in Calls :
      (Done(c) /\ WellFormed(payload[c]) /\ Len(Kfs(c)) > 0
         /\ UniqueFrames(Kfs(c)) /\ SameFields(Kfs(c)))
      => /\ (\A x \in FramesOf(Kfs(c)) : frame[c] < x)
              => IsRecord(c)
                 /\ EqualsKf(c, KfAt(Kfs(c), Min(FramesOf(Kfs(c)))))
         /\ (\A x \in FramesOf(Kfs(c)) : frame[c] > x)
              => IsRecord(c)
                 /\ EqualsKf(c, KfAt(Kfs(c), Max(FramesOf(Kfs(c)))))

----------------------------------------------------------------------------
(* C6 *)

\* C6: on the interpolation path, a known field that only one of the two
\* bracketing keyframes carries, or neither, has its default in the
\* returned camera_movement record.
C6_PartialField ==
    \A c \in Calls :
      (Done(c) /\ WellFormed(payload[c]) /\ UniqueFrames(Kfs(c))
         /\ Between(Kfs(c), frame[c]))
      => /\ IsRecord(c)
         /\ LET pk == KfAt(Kfs(c), Below(Kfs(c), frame[c]))
                nk == KfAt(Kfs(c), Above(Kfs(c), frame[c]))
            IN \A key \in KnownKeys \ (DOMAIN pk \cap DOMAIN nk) :
                 Record(c)[key] = DefaultOf(key)


----------------------------------------------------------------------------
(* C7 *)

\* C7: what a call returned is the function of its own payload and frame,
\* whatever other calls ran before it, run beside it or run after it: two
\* calls with the same arguments hold the same result, and no step of
\* another call changes the record a caller holds.
C7_CallIndependence ==
    /\ \A c \in Calls :
         Done(c) => Observed(c) = ConvertParseqToDeforum(payload[c], frame[c])
    /\ \A c, d \in Calls :
         (Done(c) /\ Done(d) /\ payload[c] = payload[d] /\ frame[c] = frame[d])
         => Observed(c) = Observed(d)

\* caller 1 holds a record with a zoom it read from its payload while
\* caller 2, on another payload, is inside the exact-match loop and has
\* written translation_x into its own record
C7_Witness ==
    /\ Done(1) /\ IsRecord(1) /\ Record(1)["zoom"] = Flt(3)
    /\ pc[2] = "L54" /\ idx[2] = 2
    /\ payload[2] # payload[1]
    /\ heap[params[2]]["translation_x"] = Flt(2)
    /\ heap[params[2]]["zoom"] = Flt(1)

----------------------------------------------------------------------------
(* C8 *)

\* C8: when several keyframes are at the target frame, every one is visited
\* in payload order and each known field of the returned record has the
\* value of the last of them that carries the field; a field none of them
\* carries keeps its default.
C8_LastWriterWins ==
    \A c \in Calls :
      (Done(c) /\ IsRecord(c) /\ Cardinality(At(Kfs(c), frame[c])) >= 2)
      => \A key \in KnownKeys :
           LET hits == {i \in At(Kfs(c), frame[c]) : key \in DOMAIN Kfs(c)[i]}
           IN Record(c)[key] = IF hits = {} THEN DefaultOf(key)
                               ELSE Flt(NumberOf(Kfs(c)[Max(hits)][key]))

\* two keyframes at the target: the first has translation_x and zoom 1, the
\* second only zoom 3; the record has the first's translation_x and the
\* second's zoom
C8_Witness ==
    /\ Done(1) /\ IsRecord(1)
    /\ Len(Kfs(1)) = 2 /\ At(Kfs(1), frame[1]) = {1, 2}
    /\ DOMAIN Kfs(1)[1] \cap KnownKeys = {"translation_x", "zoom"}
    /\ DOMAIN Kfs(1)[2] \cap KnownKeys = {"zoom"}
    /\ Kfs(1)[1]["zoom"] = Num(1) /\ Kfs(1)[2]["zoom"] = Num(3)
    /\ Record(1)["translation_x"] = Flt(2) /\ Record(1)["zoom"] = Flt(3)

----------------------------------------------------------------------------
(* C9 *)

\* C9: on the interpolation path prev_frame is the largest keyframe frame
\* <= the target when there is one and 0 otherwise, and next_frame is the
\* smallest keyframe frame >= the target when there is one and the target
\* itself only when there is none.
C9_BracketSelection ==
    \A c \in Calls :
      prev_frame[c] # None
      => LET le == {x \in FramesOf(Kfs(c)) : x <= frame[c]}
             ge == {x \in FramesOf(Kfs(c)) : x >= frame[c]}
         IN /\ prev_frame[c] = IF le # {} THEN Max(le) ELSE 0
            /\ next_frame[c] = IF ge # {} THEN Min(ge) ELSE frame[c]

----------------------------------------------------------------------------
(* C10 *)

====
